---- MODULE Spec2Model ----
(***************************************************************************)
(* A model of the blog backend in src/server/app.py and                    *)
(* src/server/models.py: the User and Article tables, the signed-cookie    *)
(* session (user_id, page_views) of each browser, the rate limiter's       *)
(* per-client counters, and one action per HTTP resource handler.          *)
(*                                                                         *)
(* A request is processed in two stages: the limiter's decorator (where    *)
(* the resource has one) admits or rejects it, and an admitted request     *)
(* runs the handler body to completion.  Spec runs the session and auth    *)
(* handlers of two browsers, one admitted request at a time, on every      *)
(* username, password and salt; SpecArticles runs the article handlers on  *)
(* every request body; SpecViews runs the pageview gate of                 *)
(* GET /articles/<id> among the other requests of a session; SpecLimit     *)
(* puts the limiter's decorators in front of the three decorated handlers; *)
(* SpecRace splits POST /signup into its existence check and its commit,   *)
(* so two requests interleave.                                             *)
(***************************************************************************)
EXTENDS Integers, Sequences, FiniteSets, TLC

\* ------------------------------------------------------------------ bounds
MaxArticles == 1
MaxCalls == 102

\* ------------------------------------------------------- program constants
PageViewLimit == 100
LoginQuota == 5
SignUpQuota == 3
CreateQuota == 100

\* ------------------------------------------------------------------ inputs
None == -1
Sessions == {1, 2}
ViewSessions == {1}
Usernames == {"", "alice", "bob"}
ViewUsernames == {"alice"}
ArticleUsernames == {"alice", "bob"}
\* a password is a string, here a sequence of character codes
Passwords == {<< >>, <<1>>, <<2>>}
ViewPasswords == {<<1>>}
Salts == {1, 2}
ViewSalts == {1}
Absent == "<absent>"
Null == "<null>"
AllowedTags == {"Product", "Engineering", "Design"}
TagInputs == AllowedTags \cup {"Invalid", Absent, Null}
\* a request body of POST /articles/create: whether the four required
\* fields are all present, and the tag field (absent, null or a string)
Bodies == [required : {TRUE}, tag : TagInputs] \cup [required : {FALSE}, tag : {Absent}]
ViewBodies == [required : {TRUE}, tag : {Absent}]
ArticleIds == 1..(MaxArticles + 1)
\* the client address of browser s: browsers 1 and 2 share an address
IpOf(s) == (s + 1) \div 2
\* the keys the limiter counts under, and the endpoints with a quota of their own
Keys == Sessions
Endpoints == {"login", "signup", "create"}

VARIABLES
  users,     \* the users table: a sequence of rows, a row's id is its index
  articles,  \* the articles table, likewise
  session,   \* session[s]: the cookie of browser s: user_id and page_views
  resp,      \* the last response sent: the request it answers and its status and body
  hits,      \* hits[k][e]: the limiter's count for key k on endpoint e in the current window
  pending,   \* pending[s]: a POST /signup of s that passed the existence check and has not committed
  calls,     \* calls[s]: GET /articles/<id> requests handled for s since its session started or was cleared
  cleared,   \* cleared[s]: s has cleared or logged out and has not signed up or logged in since
  plain      \* plain[i]: the password user i signed up with

vars == <<users, articles, session, resp, hits, pending, calls, cleared, plain>>

\* ------------------------------------------------------------ Python truth
\* `not x` on a session field: None (or absent) and 0 are falsy
Falsy(x) == x = None \/ x = 0

\* --------------------------------------------------------- password hasher
HashPrefix == 0
\* the digest of a password under a salt: as long as the password, one-to-one
Digest(password, salt) ==
  [i \in 1..Len(password) |-> password[i] + salt]

\* a variant that stores the password as it came
PlaintextHash(password, salt) == password

\* bcrypt.generate_password_hash: the algorithm's prefix, the salt, the digest
GeneratePasswordHash(password, salt) ==
  <<HashPrefix, salt>> \o Digest(password, salt)

\* bcrypt.check_password_hash: rehash the candidate under the stored salt
CheckPasswordHash(hash, password) ==
  /\ Len(hash) >= 2
  /\ hash[1] = HashPrefix
  /\ GeneratePasswordHash(password, hash[2]) = hash

\* User.authenticate
Authenticate(user, password) == CheckPasswordHash(user.password_hash, password)

\* ------------------------------------------------------------------ store
UserIds == 1..Len(users)
\* User.query.filter_by(username=username).first(): the lowest id, or None
UserByName(username) ==
  IF \E i \in UserIds : users[i].username = username
    THEN CHOOSE i \in UserIds :
           /\ users[i].username = username
           /\ \A j \in UserIds : users[j].username = username => i <= j
    ELSE None
\* User.query.get(user_id), User.query.filter(User.id == user_id).first()
UserById(user_id) == IF user_id \in UserIds THEN user_id ELSE None
\* Article.query.filter(Article.id == id).first()
ArticleById(id) == IF id \in 1..Len(articles) THEN id ELSE None
\* the unique constraint of users.username
UniqueViolation(username) == \E i \in UserIds : users[i].username = username

\* -------------------------------------------------------------- responses
Body(kind, id, name) == [kind |-> kind, id |-> id, name |-> name]
EmptyBody == Body("empty", 0, "")
ErrorBody(msg) == Body("error", 0, msg)
\* user.to_dict()
UserBody(i) == Body("user", i, users[i].username)
Response(op, s, status, body, rollback) ==
  [op |-> op, s |-> s, status |-> status, body |-> body, rollback |-> rollback]
NoResponse == Response("none", 0, 0, EmptyBody, FALSE)

NoPending == [active |-> FALSE, username |-> "", password |-> << >>]

Init ==
  /\ users = << >>
  /\ articles = << >>
  /\ session = [s \in Sessions |-> [user_id |-> None, page_views |-> None]]
  /\ resp = NoResponse
  /\ hits = [k \in Keys |-> [e \in Endpoints |-> 0]]
  /\ pending = [s \in Sessions |-> NoPending]
  /\ calls = [s \in Sessions |-> 0]
  /\ cleared = [s \in Sessions |-> FALSE]
  /\ plain = << >>

\* ------------------------------------------------------- session handlers
\* ClearSession.delete
ClearSession(s) ==
  /\ session' = [session EXCEPT ![s] = [user_id |-> None, page_views |-> None]]
  /\ resp' = Response("clear", s, 204, EmptyBody, FALSE)
  /\ calls' = [calls EXCEPT ![s] = 0]
  /\ cleared' = [cleared EXCEPT ![s] = TRUE]
  /\ UNCHANGED <<users, articles, hits, pending, plain>>

\* a variant that leaves the session as it was
LogoutKeepsUser(sess) == sess

\* the session Logout.delete leaves
LogoutSession(sess) == [sess EXCEPT !.user_id = None]

\* Logout.delete
Logout(s) ==
  /\ session' = [session EXCEPT ![s] = LogoutSession(session[s])]
  /\ resp' = Response("logout", s, 204, EmptyBody, FALSE)
  /\ cleared' = [cleared EXCEPT ![s] = TRUE]
  /\ UNCHANGED <<users, articles, hits, pending, calls, plain>>

\* CheckSession.get, its status and body
CheckSessionResult(sess) ==
  LET user == UserById(sess.user_id)
  IN  IF user # None THEN <<200, UserBody(user)>> ELSE <<401, EmptyBody>>

CheckSession(s) ==
  /\ resp' = Response("check_session", s, CheckSessionResult(session[s])[1],
                      CheckSessionResult(session[s])[2], FALSE)
  /\ UNCHANGED <<users, articles, session, hits, pending, calls, cleared, plain>>

\* ----------------------------------------------------------------- login
\* a variant that answers an unknown username with 404
LoginTellsMissingUser(username, password) ==
  IF username = "" \/ password = << >>
    THEN <<400, ErrorBody("Username and password are required"), None>>
    ELSE LET user == UserByName(username)
         IN  IF user = None
               THEN <<404, ErrorBody("User not found"), None>>
               ELSE IF Authenticate(users[user], password)
                      THEN <<200, UserBody(user), user>>
                      ELSE <<401, ErrorBody("Invalid credentials"), None>>

\* Login.post, its status, its body and the user it logs in (None: nobody)
LoginResult(username, password) ==
  IF username = "" \/ password = << >>
    THEN <<400, ErrorBody("Username and password are required"), None>>
    ELSE LET user == UserByName(username)
         IN  IF user # None /\ Authenticate(users[user], password)
               THEN <<200, UserBody(user), user>>
               ELSE <<401, ErrorBody("Invalid credentials"), None>>

\* Login.post: the handler body
LoginPost(s, username, password) ==
  LET r == LoginResult(username, password)
  IN  /\ resp' = Response("login", s, r[1], r[2], FALSE)
      /\ session' = IF r[3] # None
                      THEN [session EXCEPT ![s].user_id = r[3]]
                      ELSE session
      /\ cleared' = IF r[3] # None THEN [cleared EXCEPT ![s] = FALSE] ELSE cleared
      /\ UNCHANGED <<users, articles, calls, plain>>

Login(s, username, password) ==
  /\ LoginPost(s, username, password)
  /\ UNCHANGED <<hits, pending>>

\* ---------------------------------------------------------------- signup
\* a variant without the existence check
SignUpCheckNoLookup(username, password) ==
  IF username = "" \/ password = << >>
    THEN <<400, "Username and password are required">>
    ELSE <<0, "">>

\* SignUp.post up to the insert: the status and message it returns, 0 to go on
SignUpCheck(username, password) ==
  IF username = "" \/ password = << >>
    THEN <<400, "Username and password are required">>
    ELSE IF UserByName(username) # None
           THEN <<409, "Username already exists">>
           ELSE <<0, "">>

\* User(username=...), user.password_hash = password: the row to insert
NewUser(username, password, salt) ==
  [username |-> username, password_hash |-> GeneratePasswordHash(password, salt)]

\* SignUp.post from the insert on. The commit raises IntegrityError when the
\* username is taken; the handler catches ValueError only, so the error leaves
\* the handler without a rollback and the framework answers 500. The request's
\* teardown discards the uncommitted row.
SignUpInsert(s, username, password, salt) ==
  IF UniqueViolation(username)
    THEN /\ resp' = Response("signup", s, 500, ErrorBody("Internal Server Error"), FALSE)
         /\ UNCHANGED <<users, articles, session, calls, cleared, plain>>
    ELSE /\ users' = Append(users, NewUser(username, password, salt))
         /\ session' = [session EXCEPT ![s].user_id = Len(users) + 1]
         /\ resp' = Response("signup", s, 201,
                             Body("user", Len(users) + 1, username), FALSE)
         /\ cleared' = [cleared EXCEPT ![s] = FALSE]
         /\ plain' = Append(plain, password)
         /\ UNCHANGED <<articles, calls>>

\* SignUp.post: the handler body, run without interruption
SignUpPost(s, username, password, salt) ==
  LET c == SignUpCheck(username, password)
  IN  IF c[1] # 0
        THEN /\ resp' = Response("signup", s, c[1], ErrorBody(c[2]), FALSE)
             /\ UNCHANGED <<users, articles, session, calls, cleared, plain>>
        ELSE SignUpInsert(s, username, password, salt)

SignUp(s, username, password, salt) ==
  /\ SignUpPost(s, username, password, salt)
  /\ UNCHANGED <<hits, pending>>

\* --------------------------------------------------------------- articles
\* article.to_dict()
ArticleBody(i) == Body("article", i, articles[i].tag)

\* IndexArticle.get
IndexArticle(s) ==
  /\ resp' = Response("articles", s, 200, Body("list", Len(articles), ""), FALSE)
  /\ UNCHANGED <<users, articles, session, hits, pending, calls, cleared, plain>>

\* GetArticle.get
GetArticle(s) ==
  LET user_id == session[s].user_id
      owned == {i \in 1..Len(articles) : articles[i].user_id = user_id}
  IN  /\ resp' = IF Falsy(user_id)
                   THEN Response("my-articles", s, 401, ErrorBody("Unauthorized"), FALSE)
                   ELSE Response("my-articles", s, 200,
                                 Body("list", Cardinality(owned), ""), FALSE)
      /\ UNCHANGED <<users, articles, session, hits, pending, calls, cleared, plain>>

\* a variant without the session check
CreateArticleCheckNoAuth(sess, data) ==
  IF UserById(sess.user_id) = None
    THEN <<404, "User not found">>
    ELSE IF ~data.required
           THEN <<400, "Missing required fields">>
           ELSE IF data.tag # Absent /\ data.tag \notin AllowedTags
                  THEN <<400, "Invalid tag">>
                  ELSE <<0, "">>

\* a variant without the tag check
CreateArticleCheckAnyTag(sess, data) ==
  IF Falsy(sess.user_id)
    THEN <<401, "Unauthorized. Please log in">>
    ELSE IF UserById(sess.user_id) = None
           THEN <<404, "User not found">>
           ELSE IF ~data.required
                  THEN <<400, "Missing required fields">>
                  ELSE <<0, "">>

\* CreateArticle.post up to the insert: the status and message it returns, 0 to go on
CreateArticleCheck(sess, data) ==
  IF Falsy(sess.user_id)
    THEN <<401, "Unauthorized. Please log in">>
    ELSE IF UserById(sess.user_id) = None
           THEN <<404, "User not found">>
           ELSE IF ~data.required
                  THEN <<400, "Missing required fields">>
                  ELSE IF data.tag # Absent /\ data.tag \notin AllowedTags
                         THEN <<400, "Invalid tag">>
                         ELSE <<0, "">>

\* the tag column of the inserted row: a key whose value is None is dropped
\* from article_data, and the column's default fills the missing tag
StoredTag(tag) == IF tag = Absent THEN "Engineering" ELSE tag

\* Article(**article_data)
NewArticle(user_id, data) ==
  [author |-> users[user_id].username, user_id |-> user_id, tag |-> StoredTag(data.tag)]

\* the constraints of the articles table that raise IntegrityError at the
\* commit: tag is NOT NULL, user_id references users.id
IntegrityViolation(row) == row.tag = Absent \/ UserById(row.user_id) = None

\* CreateArticle.post: the handler body. The rows the checks let through
\* satisfy the table's constraints, so its except branch is never taken.
CreateArticlePost(s, data) ==
  LET c == CreateArticleCheck(session[s], data)
  IN  IF c[1] # 0
        THEN /\ resp' = Response("create", s, c[1], ErrorBody(c[2]), FALSE)
             /\ UNCHANGED <<users, articles, session, calls, cleared, plain>>
        ELSE
      IF IntegrityViolation(NewArticle(session[s].user_id, data))
        THEN /\ resp' = Response("create", s, 400, ErrorBody("IntegrityError"), TRUE)
             /\ UNCHANGED <<users, articles, session, calls, cleared, plain>>
        ELSE /\ Len(articles) < MaxArticles
             /\ articles' = Append(articles, NewArticle(session[s].user_id, data))
             /\ resp' = Response("create", s, 201,
                                 Body("article", Len(articles) + 1, StoredTag(data.tag)),
                                 FALSE)
             /\ UNCHANGED <<users, session, calls, cleared, plain>>

CreateArticle(s, data) ==
  /\ CreateArticlePost(s, data)
  /\ UNCHANGED <<hits, pending>>

\* -------------------------------------------------------------------- Spec
\* the session and auth handlers, one admitted request at a time
Next ==
  \E s \in Sessions :
    \/ ClearSession(s)
    \/ Logout(s)
    \/ CheckSession(s)
    \/ \E u \in Usernames, p \in Passwords : Login(s, u, p)
    \/ \E u \in Usernames, p \in Passwords, salt \in Salts : SignUp(s, u, p, salt)

Spec == Init /\ [][Next]_vars

\* the article handlers, one admitted request at a time
NextArticles ==
  \E s \in Sessions :
    \/ \E data \in Bodies : CreateArticle(s, data)
    \/ IndexArticle(s)
    \/ GetArticle(s)
    \/ ClearSession(s)
    \/ Logout(s)
    \/ \E u \in ArticleUsernames, p \in ViewPasswords : Login(s, u, p)
    \/ \E u \in ArticleUsernames, p \in ViewPasswords, salt \in ViewSalts :
         SignUp(s, u, p, salt)

SpecArticles == Init /\ [][NextArticles]_vars

\* ------------------------------------------------------- the pageview gate
\* a variant that refuses the 100th read
WithinLimitOffByOne(page_views) == page_views < PageViewLimit

\* session['page_views'] <= 100
WithinLimit(page_views) == page_views <= PageViewLimit

\* the counter after the first two statements of ShowArticle.get
NextPageViews(page_views) ==
  (IF Falsy(page_views) THEN 0 ELSE page_views) + 1

\* ShowArticle.get. Under the limit, a missing article makes article.to_dict()
\* raise AttributeError on None: the framework answers 500, and the session,
\* already written, is saved with that response.
ShowArticle(s, id) ==
  LET page_views == NextPageViews(session[s].page_views)
      article == ArticleById(id)
  IN  /\ calls[s] < MaxCalls
      /\ session' = [session EXCEPT ![s].page_views = page_views]
      /\ calls' = [calls EXCEPT ![s] = @ + 1]
      /\ resp' = IF WithinLimit(page_views)
                   THEN IF article # None
                          THEN Response("show", s, 200, ArticleBody(article), FALSE)
                          ELSE Response("show", s, 500,
                                        ErrorBody("Internal Server Error"), FALSE)
                   ELSE Response("show", s, 401,
                                 ErrorBody("Maximum pageview limit reached"), FALSE)
      /\ UNCHANGED <<users, articles, hits, pending, cleared, plain>>

\* one browser reading articles, between the other requests of its session
NextViews ==
  \E s \in ViewSessions :
    \/ \E id \in ArticleIds : ShowArticle(s, id)
    \/ ClearSession(s)
    \/ Logout(s)
    \/ CheckSession(s)
    \/ \E u \in ViewUsernames, p \in ViewPasswords : Login(s, u, p)
    \/ \E u \in ViewUsernames, p \in ViewPasswords, salt \in ViewSalts : SignUp(s, u, p, salt)
    \/ \E data \in ViewBodies : CreateArticle(s, data)

SpecViews == Init /\ [][NextViews]_vars

\* ------------------------------------------------------------ the limiter
\* a variant that counts under the browser, not its address
KeyBySession(s) == s

\* key_func=get_remote_address: the limiter counts under the client address
KeyFunc(s) == IpOf(s)

\* the decorators: limiter.limit("5 per minute"), ("3 per hour"), ("100 per hour")
Quota(e) ==
  CASE e = "login" -> LoginQuota
    [] e = "signup" -> SignUpQuota
    [] e = "create" -> CreateQuota

\* whether the limiter lets a request of browser s through to endpoint e
Admits(s, e) == hits[KeyFunc(s)][e] < Quota(e)

\* a decorated handler: the limiter counts the request and runs the handler
\* body, or answers 429 itself once the window's quota is used up
Limit(e, s, handler) ==
  IF Admits(s, e)
    THEN /\ hits' = [hits EXCEPT ![KeyFunc(s)][e] = @ + 1]
         /\ handler
    ELSE /\ resp' = Response(e, s, 429, ErrorBody("Too Many Requests"), FALSE)
         /\ UNCHANGED <<users, articles, session, hits, calls, cleared, plain>>

LimitedLogin(s, username, password) ==
  /\ Limit("login", s, LoginPost(s, username, password))
  /\ UNCHANGED pending

LimitedSignUp(s, username, password, salt) ==
  /\ Limit("signup", s, SignUpPost(s, username, password, salt))
  /\ UNCHANGED pending

LimitedCreateArticle(s, data) ==
  /\ Limit("create", s, CreateArticlePost(s, data))
  /\ UNCHANGED pending

\* the window of endpoint e ends for key k: its count starts again
WindowExpire(k, e) ==
  /\ hits[k][e] > 0
  /\ hits' = [hits EXCEPT ![k][e] = 0]
  /\ UNCHANGED <<users, articles, session, resp, pending, calls, cleared, plain>>

NextLimit ==
  \/ \E s \in Sessions :
       \/ \E u \in ArticleUsernames, p \in ViewPasswords : LimitedLogin(s, u, p)
       \/ \E u \in ViewUsernames, p \in ViewPasswords, salt \in ViewSalts :
            LimitedSignUp(s, u, p, salt)
       \/ \E data \in ViewBodies : LimitedCreateArticle(s, data)
  \/ \E k \in Keys, e \in Endpoints : WindowExpire(k, e)

SpecLimit == Init /\ [][NextLimit]_vars

\* ------------------------------------------------- interleaved signups
\* SignUp.post up to the existence check (lines 154-161)
SignUpBegin(s, username, password) ==
  LET c == SignUpCheck(username, password)
  IN  /\ ~pending[s].active
      /\ IF c[1] # 0
           THEN /\ resp' = Response("signup", s, c[1], ErrorBody(c[2]), FALSE)
                /\ UNCHANGED pending
           ELSE /\ pending' = [pending EXCEPT ![s] =
                       [active |-> TRUE, username |-> username, password |-> password]]
                /\ UNCHANGED resp
      /\ UNCHANGED <<users, articles, session, hits, calls, cleared, plain>>

\* SignUp.post from the insert on (lines 163-173)
SignUpCommit(s, salt) ==
  /\ pending[s].active
  /\ SignUpInsert(s, pending[s].username, pending[s].password, salt)
  /\ pending' = [pending EXCEPT ![s] = NoPending]
  /\ UNCHANGED hits

NextRace ==
  \E s \in Sessions :
    \/ \E u \in Usernames, p \in Passwords : SignUpBegin(s, u, p)
    \/ \E salt \in ViewSalts : SignUpCommit(s, salt)
    \/ \E u \in Usernames, p \in Passwords : Login(s, u, p)
    \/ \E data \in ViewBodies : CreateArticle(s, data)
    \/ CheckSession(s)
    \/ IndexArticle(s)

SpecRace == Init /\ [][NextRace]_vars

\* ================================================================ claims
\* Each handler records the request it answered in resp (op, s), so a step
\* is matched to the handler that took it before its inputs are tried.

\* the rows of the users table that carry a username
RowsNamed(table, username) == {i \in 1..Len(table) : table[i].username = username}

\* at most one user row per username
UniqueUsernames == \A u \in Usernames : Cardinality(RowsNamed(users, u)) <= 1

\* C1, as stated: the store holds at most one User per username, and every
\* POST /signup whose username belongs to a stored user answers 409 and
\* creates nothing.
C1_TakenUsernameIsConflict ==
  [][/\ UniqueUsernames
     /\ resp'.op = "signup" =>
          \A u \in Usernames, p \in Passwords, salt \in Salts :
            (UserByName(u) # None /\ SignUp(resp'.s, u, p, salt))
              => (resp'.status = 409 /\ users' = users)]_vars

\* C1, amended: the store holds at most one User per username; a POST /signup
\* whose username belongs to a stored user creates nothing, leaves the session
\* alone and leaves exactly one row of that username, answering 409 when its
\* password is non-empty and 400 when its password is empty.
C1_TakenUsernameCreatesNothing ==
  [][/\ UniqueUsernames
     /\ UniqueUsernames'
     /\ resp'.op = "signup" =>
          \A u \in Usernames, p \in Passwords, salt \in Salts :
            (UserByName(u) # None /\ SignUp(resp'.s, u, p, salt))
              => /\ users' = users
                 /\ session' = session
                 /\ Cardinality(RowsNamed(users', u)) = 1
                 /\ resp'.status = (IF p = << >> THEN 400 ELSE 409)]_vars

\* a second signup with a stored username has been answered 409
C1_Witness ==
  /\ resp.op = "signup"
  /\ resp.status = 409
  /\ users # << >>

\* C3: a POST /signup with a non-empty username nobody has and a non-empty
\* password answers 201 with the new user, stores a hash that differs from
\* the password and binds the session to the new user; and in every later
\* state a login with a stored user's username and the password it signed up
\* with answers 200 with that same user.
C3_SignUpThenLogin ==
  [][/\ resp'.op = "signup" =>
          \A u \in Usernames \ {""}, p \in Passwords \ {<< >>}, salt \in Salts :
            (UserByName(u) = None /\ SignUp(resp'.s, u, p, salt))
              => /\ resp'.status = 201
                 /\ Len(users') = Len(users) + 1
                 /\ users'[Len(users')].username = u
                 /\ users'[Len(users')].password_hash # p
                 /\ session'[resp'.s].user_id = Len(users')
                 /\ resp'.body = Body("user", Len(users'), u)
     /\ \A i \in 1..Len(users') :
          /\ users'[i].password_hash # plain'[i]
          /\ LoginResult(users[i].username, plain[i])' =
               <<200, Body("user", i, users'[i].username), i>>
     /\ resp'.op = "login" =>
          \A i \in 1..Len(users) :
            Login(resp'.s, users[i].username, plain[i])
              => /\ resp'.status = 200
                 /\ resp'.body = Body("user", i, users[i].username)
                 /\ session'[resp'.s].user_id = i]_vars

\* a user has signed up and a later login of theirs has been answered 200
C3_Witness ==
  /\ users # << >>
  /\ resp.op = "login"
  /\ resp.status = 200
  /\ session[resp.s].user_id = resp.body.id

\* the response part (status, body) of a login result
LoginResponse(r) == <<r[1], r[2]>>

C5_ClearedSessionIsUnauthorized ==
  [][\A s \in Sessions :
       /\ (resp'.op \in {"clear", "logout"} /\ (ClearSession(s) \/ Logout(s)))
            => cleared'[s]
       /\ cleared'[s] => session'[s].user_id = None
       /\ (resp'.op = "check_session" /\ cleared[s] /\ CheckSession(s))
            => (resp'.status = 401 /\ resp'.body = EmptyBody)]_vars

\* a session that had a user and was cleared or logged out has asked for its user
C5_Witness ==
  /\ resp.op = "check_session"
  /\ resp.status = 401
  /\ cleared[resp.s]
  /\ users # << >>

\* C6: a POST /articles/create of a session that names no user answers 401,
\* whatever its body, and leaves the articles table as it was.
C6_CreateNeedsSession ==
  [][resp'.op = "create" =>
       \A data \in Bodies :
         (Falsy(session[resp'.s].user_id) /\ CreateArticle(resp'.s, data))
           => (resp'.status = 401 /\ articles' = articles)]_vars

\* a session that was logged out or cleared has been refused an article
C6_Witness ==
  /\ resp.op = "create"
  /\ resp.status = 401
  /\ cleared[resp.s]
  /\ users # << >>

\* every stored article's tag is one of the enumeration
TagsValid == \A i \in 1..Len(articles) : articles[i].tag \in AllowedTags

\* C7: for a POST /articles/create of a logged-in session with the required
\* fields: a supplied tag outside the enumeration answers 400 and creates
\* nothing; an omitted tag creates the article with tag Engineering; and
\* every stored article's tag is one of the enumeration.
C7_TagValidatedOrDefaulted ==
  [][/\ TagsValid
     /\ TagsValid'
     /\ resp'.op = "create" =>
          \A data \in Bodies :
            (/\ data.required
             /\ UserById(session[resp'.s].user_id) # None
             /\ CreateArticle(resp'.s, data))
              => /\ (data.tag # Absent /\ data.tag \notin AllowedTags)
                      => (resp'.status = 400 /\ articles' = articles)
                 /\ data.tag = Absent
                      => /\ resp'.status = 201
                         /\ Len(articles') = Len(articles) + 1
                         /\ articles'[Len(articles')].tag = "Engineering"
                 /\ data.tag \in AllowedTags
                      => /\ resp'.status = 201
                         /\ articles'[Len(articles')].tag = data.tag]_vars

\* an article is stored and a logged-in session's invalid tag has been refused
C7_Witness ==
  /\ resp.op = "create"
  /\ resp.status = 400
  /\ resp.body.name = "Invalid tag"
  /\ \E i \in 1..Len(articles) : articles[i].tag = "Engineering"

\* the session's counter agrees with the reads handled since its start or
\* its last clear (no counter yet, or 0, stands for no read)
CounterCountsCalls(s) ==
  IF calls[s] = 0 THEN Falsy(session[s].page_views)
                  ELSE session[s].page_views = calls[s]

C8_MissingArticleIsSuccess ==
  [][resp'.op = "show" =>
       \A id \in ArticleIds :
         (/\ ArticleById(id) = None
          /\ calls[resp'.s] < PageViewLimit
          /\ ShowArticle(resp'.s, id))
           => (resp'.status = 200 /\ resp'.body.kind \in {"null", "empty"})]_vars

\* C9: the limiter never counts past a quota; browsers at one address are
\* admitted or rejected together; and a request to a decorated endpoint
\* that arrives when its address has used the window's quota is answered
\* 429 and changes neither the sessions nor the tables.
C9_OverQuotaIsRejected ==
  [][resp'.op \in Endpoints =>
       LET s == resp'.s
           e == resp'.op
       IN  /\ hits[IpOf(s)][e] <= Quota(e)
           /\ \A s2 \in Sessions :
                IpOf(s2) = IpOf(s) => (Admits(s, e) <=> Admits(s2, e))
           /\ (/\ hits[IpOf(s)][e] >= Quota(e)
               /\ \/ \E u \in ArticleUsernames, p \in ViewPasswords : LimitedLogin(s, u, p)
                  \/ \E u \in ViewUsernames, p \in ViewPasswords, salt \in ViewSalts :
                       LimitedSignUp(s, u, p, salt)
                  \/ \E data \in ViewBodies : LimitedCreateArticle(s, data))
                => /\ resp'.status = 429
                   /\ UNCHANGED <<users, articles, session>>]_vars

\* the 101st article creation of an address within the window has been rejected
C9_Witness ==
  /\ resp.op = "create"
  /\ resp.status = 429
  /\ hits[IpOf(resp.s)]["create"] = CreateQuota
  /\ hits[IpOf(resp.s)]["login"] = LoginQuota

\* C10: on both write paths, a commit that violates a constraint of the
\* store is followed by an explicit rollback and an error response, and
\* leaves no row of the failed request; also for a POST /signup whose
\* username was taken between its existence check and its commit.
C10_FailedCommitRollsBack ==
  [][/\ resp'.op = "signup" =>
          \A s \in Sessions, salt \in ViewSalts :
            (/\ pending[s].active
             /\ UniqueViolation(pending[s].username)
             /\ SignUpCommit(s, salt))
              => (resp'.rollback /\ resp'.status >= 400 /\ users' = users)
     /\ resp'.op = "create" =>
          \A data \in ViewBodies :
            (/\ CreateArticleCheck(session[resp'.s], data)[1] = 0
             /\ IntegrityViolation(NewArticle(session[resp'.s].user_id, data))
             /\ CreateArticle(resp'.s, data))
              => (resp'.rollback /\ resp'.status >= 400 /\ articles' = articles)]_vars

====
